---------------------------- MODULE Spec2Model ----------------------------
(***************************************************************************)
(* A model of the fastproxy forward proxy (package proxy):                 *)
(*   - the body copier and Response.ReadFrom of proxy/http.go    (SpecCopy)*)
(*   - Proxy.serveConn and the CONNECT handlers                  (SpecConn)*)
(*   - the accept loop Proxy.Serve with its worker pool          (SpecServe)*)
(* Bytes are modelled as one-character tokens; "CR" and "LF" stand for the *)
(* two bytes of a line end.                                                *)
(***************************************************************************)
EXTENDS Integers, Sequences, FiniteSets, TLC

VARIABLES
    \* ---- body copier / Response.ReadFrom (proxy/http.go)
    src,            \* all bytes the upstream will ever deliver
    srcEnd,         \* how the upstream ends after them: "eof" or "err"
    rd,             \* bytes pulled from the upstream into the bufio.Reader
    pos,            \* bytes consumed from the bufio.Reader
    out,            \* bytes accepted by the client-facing bufio.Writer
    sniffed,        \* bytes shown to the sniffer
    cpc,            \* position inside Response.ReadFrom / copyBody
    result,         \* return value of Response.ReadFrom, "none" while running
    contentLength,  \* header.ContentLength(): -2 absent, -1 chunked, else n
    byteStillNeeded,\* copyBodyFixedSize: remaining budget
    caller,         \* who called copyBodyFixedSize
    chunkSize,      \* copyBodyChunked: size of the current chunk
    sizes,          \* chunk sizes parseChunkSize has returned so far
    dataOut,        \* chunk-data bytes forwarded so far
    fixStart,       \* pos when copyBodyFixedSize was last entered
    fixOut,         \* Len(out) when copyBodyFixedSize was last entered
    fixBudget,      \* contentLength argument of the last copyBodyFixedSize
    fixResult,      \* what the last copyBodyFixedSize returned
    hdrEnd,         \* pos after the header block was parsed
    \* ---- one connection in Proxy.serveConn (proxy/proxy.go, handlers)
    cSrc,           \* all bytes the client will ever send on the connection
    cEnd,           \* what the client does after them: "eof", "err", "open"
    cSent,          \* bytes the client has sent so far
    crd,            \* client bytes the proxy has read from the socket
    oSrc,           \* all bytes the origin sends on the tunnel connection
    oEnd,           \* what the origin does after them: "eof", "err", "open"
    ord,            \* origin bytes the proxy has read from the tunnel
    decrypt,        \* Handler.ShouldDecryptHost for the CONNECT host
    pc,             \* position of the worker inside serveConn
    ret,            \* what serveConn returned, "none" while running
    handlers,       \* the connection handlers entered, in order
    acq,            \* per pooled object: times acquired
    rel,            \* per pooled object: times released to its pool
    events,         \* releases, flushes and closes, in order
    toClient,       \* what was written to the client connection
    toOrigin,       \* bytes written to the tunnel connection
    c1,             \* copier client -> origin: "idle", "run", "done"
    c2,             \* copier origin -> client
    err1,           \* result of copier client -> origin
    err2,           \* result of copier origin -> client
    tunnelConn,     \* connection to the origin: "none", "open", "closed"
    conn,           \* client connection: "open", "closed"
    \* ---- Proxy.Serve: the accept loop and the worker pool (proxy/proxy.go)
    spc,            \* position of Serve
    lastAccept,     \* what ln.Accept() returned last
    tempErrs,       \* temporary accept errors so far
    cur,            \* Serve's variable c: a connection, 0 for nil
    accepted,       \* connections accepted so far
    cst,            \* per connection: "none", "accepted", "serving", "rejecting", "closed"
    cinfo,          \* per connection: what happened to it
    wp,             \* worker pool: "none", "running", "stopped"
    serveRet,       \* what Serve returned, "none" while it runs
    \* ---- pooled Request and Response objects (proxy/http.go)
    requests,       \* per Request instance: its fields
    reqState,       \* per Request instance: "free", "owned", "pooled"
    responses,      \* per Response instance: its fields
    respState,      \* per Response instance: "free", "owned", "pooled"
    lastOp          \* the last call made on a Request or Response

copyVars == <<src, srcEnd, rd, pos, out, sniffed, cpc, result, contentLength,
              byteStillNeeded, caller, chunkSize, sizes, dataOut, fixStart,
              fixOut, fixBudget, fixResult, hdrEnd>>

connVars == <<cSrc, cEnd, cSent, crd, oSrc, oEnd, ord, decrypt, pc, ret,
              handlers, acq, rel, events, toClient, toOrigin, c1, c2, err1,
              err2, tunnelConn, conn>>

serveVars == <<spc, lastAccept, tempErrs, cur, accepted, cst, cinfo, wp, serveRet>>

objVars == <<requests, reqState, responses, respState, lastOp>>

vars == <<copyVars, connVars, serveVars, objVars>>

---------------------------------------------------------------------------
(* Bounds of the model *)

\* capacity of the bufio.Reader's buffer
BufSize == 3
\* largest Content-Length / chunk size the inputs declare
MaxLen == 2
\* most chunks in a chunked input
MaxChunks == 2
\* most bytes that follow a complete message on the upstream
MaxTail == 2
\* most bytes the client sends after its CONNECT request
MaxPayload == 2
\* most bytes the origin sends on a tunnel
MaxOrigin == 2
\* capacity of the bufio.Reader serveConn reads the request line with
ConnBufSize == 8
\* DefaultConcurrency, Serve's MaxWorkersCount (256 * 1024), scaled down
DefaultConcurrency == 2
\* most connections the listener hands out
MaxConns == 4
\* most temporary errors of the listener
MaxTempErrs == 2

\* math.MaxInt64, the budget copyBodyIdentity passes, cut to TLC's integers
MaxInt64 == 2147483647

---------------------------------------------------------------------------
(* Helpers on byte sequences *)

Min(a, b) == IF a <= b THEN a ELSE b
Max(a, b) == IF a >= b THEN a ELSE b

Prefix(s, n) == SubSeq(s, 1, n)

IsPrefix(s, t) == Len(s) <= Len(t) /\ s = SubSeq(t, 1, Len(s))

RECURSIVE SumSeq(_)
SumSeq(s) == IF s = <<>> THEN 0 ELSE Head(s) + SumSeq(Tail(s))

RECURSIVE Repeat(_, _)
Repeat(b, n) == IF n = 0 THEN <<>> ELSE <<b>> \o Repeat(b, n - 1)

strCRLF == <<"CR", "LF">>

\* hex2intTable: 16 for a byte that is no hex digit
hex2int(c) ==
    CASE c = "0" -> 0
      [] c = "1" -> 1
      [] c = "2" -> 2
      [] c = "3" -> 3
      [] OTHER   -> 16

Digit(n) ==
    CASE n = 0 -> "0"
      [] n = 1 -> "1"
      [] n = 2 -> "2"
      [] OTHER -> "3"


---------------------------------------------------------------------------
(* Inputs of the copier: upstream byte streams *)

StatusLine == <<"S", "CR", "LF">>

\* header blocks: none (identity), Content-Length: n, Transfer-Encoding: chunked
HdrNone == strCRLF
HdrLength(n) == <<"L", Digit(n)>> \o strCRLF \o strCRLF
HdrChunked == <<"T">> \o strCRLF \o strCRLF

Filler(n) == [i \in 1..n |-> IF i % 2 = 1 THEN "x" ELSE "y"]

\* one chunk on the wire: size line, data, CRLF; lead adds a leading zero
EncodeChunk(size, lead) ==
    (IF lead THEN <<"0">> ELSE <<>>) \o <<Digit(size)>> \o strCRLF
        \o Filler(size) \o strCRLF

RECURSIVE EncodeChunks(_, _)
EncodeChunks(list, lead) ==
    IF list = <<>> THEN <<>>
    ELSE EncodeChunk(Head(list), lead) \o EncodeChunks(Tail(list), lead)

\* the last chunk of a message that has one trailing header line
LastChunkWithTrailer == <<"0">> \o strCRLF \o <<"t">> \o strCRLF \o strCRLF

ChunkLists == UNION {[1..n -> 0..MaxLen] : n \in 1..MaxChunks}

Messages ==
    {StatusLine \o HdrLength(n) \o Filler(n + t) : n \in 0..MaxLen, t \in 0..MaxTail}
    \cup {StatusLine \o HdrNone \o Filler(n) : n \in 0..(MaxLen + MaxTail)}
    \cup {StatusLine \o HdrChunked \o EncodeChunks(l, lead) \o Filler(t) :
             l \in ChunkLists, lead \in BOOLEAN, t \in {0, MaxTail}}
    \cup {StatusLine \o HdrChunked \o EncodeChunks(l, FALSE) \o LastChunkWithTrailer :
             l \in {<<>>, <<1>>}}

\* every message, and every message cut short by the end of the stream
Sources == UNION {{Prefix(m, n) : n \in 0..Len(m)} : m \in Messages}

---------------------------------------------------------------------------
(* bufio.Reader *)

\* the buffered, unread bytes: src.Peek(src.Buffered())
Buffered == SubSeq(src, pos + 1, rd)

\* values rd can take after the reader has delivered the bytes up to index e:
\* nothing is read when they are buffered, else the last fill() brought the
\* byte at e and at most a buffer's worth
ReadAhead(e) ==
    IF rd >= e THEN {rd} ELSE e..Min(Len(src), e + BufSize - 1)

\* index of the first LF of s after index p, 0 when s ends before one
RECURSIVE FirstLF(_, _)
FirstLF(s, p) ==
    IF p >= Len(s) THEN 0
    ELSE IF s[p + 1] = "LF" THEN p + 1 ELSE FirstLF(s, p + 1)

LineEnd(p) == FirstLF(src, p)

---------------------------------------------------------------------------
(* header package: ResponseLine.Parse and Header.ParseHeaderFields *)

\* a response line is one CRLF-terminated line that starts with the version
IsResponseLine(line) ==
    /\ Len(line) >= 3
    /\ line[1] = "S"
    /\ SubSeq(line, Len(line) - 1, Len(line)) = strCRLF

\* scan header lines from index p up to and including the empty line;
\* cl is the content length seen so far
RECURSIVE HeaderScan(_, _)
HeaderScan(p, cl) ==
    LET e == LineEnd(p)
        line == SubSeq(src, p + 1, e)
    IN  IF e = 0 THEN [ok |-> FALSE, end |-> Len(src), cl |-> cl]
        ELSE IF line = strCRLF THEN [ok |-> TRUE, end |-> e, cl |-> cl]
        ELSE IF Len(line) < 3 \/ SubSeq(line, Len(line) - 1, Len(line)) # strCRLF
             THEN [ok |-> FALSE, end |-> e, cl |-> cl]
        ELSE IF line[1] = "T" THEN HeaderScan(e, -1)
        ELSE IF line[1] = "L" /\ Len(line) = 4 /\ hex2int(line[2]) < 16
             THEN HeaderScan(e, IF cl = -1 THEN -1 ELSE hex2int(line[2]))
        ELSE HeaderScan(e, cl)

IsBodyChunked == contentLength = -1
IsBodyIdentity == contentLength = -2

---------------------------------------------------------------------------
(* parseChunkSize and readHexInt *)

\* readHexInt from index p: hex digits up to the first other byte, which is
\* unread; no digit at all is an error
RECURSIVE HexScan(_, _, _)
HexScan(p, n, i) ==
    IF p >= Len(src) THEN [ok |-> i > 0, n |-> n, end |-> p]
    ELSE LET k == hex2int(src[p + 1])
         IN  IF k = 16
             THEN IF i = 0 THEN [ok |-> FALSE, n |-> -1, end |-> p + 1]
                           ELSE [ok |-> TRUE, n |-> n, end |-> p]
             ELSE HexScan(p + 1, n * 16 + k, i + 1)

\* mutant: parseChunkSize forgets to append the line end to the buffer
ChunkSizeLineEnd_Missing == <<>>

\* what parseChunkSize appends to the buffer after the digits
ChunkSizeLineEnd == strCRLF

\* parseChunkSize from index p: the size, the index after the size line and
\* the bytes left in the scratch buffer
ParseChunkSize(p) ==
    LET h == HexScan(p, 0, 0)
        digits == SubSeq(src, p + 1, h.end)
    IN  IF ~h.ok THEN [ok |-> FALSE, n |-> -1, end |-> h.end, buf |-> <<>>]
        ELSE IF h.end >= Len(src)
             THEN [ok |-> FALSE, n |-> -1, end |-> Len(src), buf |-> digits]
        ELSE IF src[h.end + 1] # "CR"
             THEN [ok |-> FALSE, n |-> -1, end |-> h.end + 1, buf |-> digits]
        ELSE IF h.end + 1 >= Len(src)
             THEN [ok |-> FALSE, n |-> -1, end |-> Len(src), buf |-> digits]
        ELSE IF src[h.end + 2] # "LF"
             THEN [ok |-> FALSE, n |-> -1, end |-> h.end + 2, buf |-> digits]
        ELSE [ok |-> TRUE, n |-> h.n, end |-> h.end + 2,
              buf |-> digits \o ChunkSizeLineEnd]

---------------------------------------------------------------------------
(* copyBody and its three modes *)

\* mutant: the iteration writes and discards nothing
BytesShouldRead_None(lenb, need) == 0

\* mutant: the iteration writes all it peeked, whatever the budget
BytesShouldRead_NoCap(lenb, need) == lenb

\* copyBodyFixedSize: how many of the lenb peeked bytes one iteration writes
BytesShouldRead(lenb, need) == IF need <= lenb THEN need ELSE lenb

\* mutant: the chunk's trailing CRLF is left out of the budget
ChunkBudget_NoCRLF(size) == size

\* copyBodyChunked: the budget of the fixed-size copy of one chunk
ChunkBudget(size) == size + Len(strCRLF)

\* copyBodyIdentity: what it makes of copyBodyFixedSize's return value
IdentityResult(r) == IF r = "EOF" THEN "ok" ELSE r

\* copyBody: which mode the header selects
BodyMode ==
    IF contentLength > 0 THEN "fixed"
    ELSE IF IsBodyChunked THEN "chunked"
    ELSE IF IsBodyIdentity THEN "identity"
    ELSE "none"

\* bufio.Writer.Write(p) and the sniffer call that follows a successful write
WriteOk(p) == out' = out \o p /\ sniffed' = sniffed \o p
\* mutant: the sniffer is shown the piece although its write failed
WriteFails_Sniffed(p) ==
    \E j \in 0..(Len(p) - 1) : out' = out \o Prefix(p, j) /\ sniffed' = sniffed \o p

\* a failed Write has taken fewer than len(p) bytes; the sniffer is not called
WriteFails(p) == \E j \in 0..(Len(p) - 1) : out' = out \o Prefix(p, j) /\ sniffed' = sniffed

\* entering copyBodyFixedSize(src, dst, n, sniffer) on behalf of who
EnterFixed(n, who) ==
    /\ cpc' = "fixed"
    /\ byteStillNeeded' = n
    /\ caller' = who
    /\ fixStart' = pos'
    /\ fixOut' = Len(out')
    /\ fixBudget' = n
    /\ fixResult' = "running"

\* copyBodyFixedSize returns r ("nil", "EOF" or "errWrite") to its caller
ReturnFixed(r) ==
    /\ fixResult' = r
    /\ IF caller = "fixed"
       THEN cpc' = "done" /\ result' = (IF r = "nil" THEN "ok" ELSE r)
       ELSE IF caller = "identity"
       THEN cpc' = "done"
            /\ result' = IdentityResult(IF r = "nil" THEN "ok" ELSE r)
       ELSE IF r # "nil" THEN cpc' = "done" /\ result' = r
       ELSE IF chunkSize = 0 THEN cpc' = "done" /\ result' = "ok"
       ELSE cpc' = "chunkSize" /\ result' = result

---------------------------------------------------------------------------
(* Response.ReadFrom, step by step *)

\* the pooled objects of one connection: serveConn's reader and Request,
\* the handler's writer and Response, decryptConnect's reader and Request
PoolObjs == {"reader1", "req1", "writer", "resp", "reader2", "req2"}

\* no connection is being served
ConnIdle ==
    /\ cSrc = <<>> /\ cEnd = "eof" /\ cSent = 0 /\ crd = 0
    /\ oSrc = <<>> /\ oEnd = "eof" /\ ord = 0
    /\ decrypt = FALSE
    /\ pc = "idle" /\ ret = [where |-> "none", err |-> "none"]
    /\ handlers = <<>>
    /\ acq = [o \in PoolObjs |-> 0] /\ rel = [o \in PoolObjs |-> 0]
    /\ events = <<>>
    /\ toClient = <<>> /\ toOrigin = <<>>
    /\ c1 = "idle" /\ c2 = "idle" /\ err1 = "nil" /\ err2 = "nil"
    /\ tunnelConn = "none" /\ conn = "open"

Conns == 1..MaxConns

NoInfo == [served |-> FALSE, rejected |-> FALSE, load |-> 0, wrote |-> <<>>,
           outcome |-> "none"]

\* no server is running
ServeIdle ==
    /\ spc = "idle" /\ lastAccept = "none" /\ tempErrs = 0
    /\ cur = 0 /\ accepted = 0
    /\ cst = [c \in Conns |-> "none"]
    /\ cinfo = [c \in Conns |-> NoInfo]
    /\ wp = "none" /\ serveRet = "none"

\* the Request and Response instances that exist
ReqInsts == {"q1", "q2"}
RespInsts == {"p1"}

\* &Request{}: what AcquireRequest allocates when the pool is empty
ZeroRequest ==
    [reader |-> "nil", reqLine |-> "", header |-> "", sniffer |-> "nil",
     isTLS |-> FALSE, tlsServerName |-> ""]

\* &Response{}: what AcquireResponse allocates when the pool is empty
ZeroResponse ==
    [writer |-> "nil", respLine |-> "", header |-> "", sniffer |-> "nil"]

NoOp == [op |-> "none", obj |-> "none", inst |-> "none", err |-> "nil",
         bound |-> FALSE, same |-> FALSE, valid |-> FALSE]

\* no Request or Response has been allocated
ObjIdle ==
    /\ requests = [i \in ReqInsts |-> ZeroRequest]
    /\ reqState = [i \in ReqInsts |-> "free"]
    /\ responses = [i \in RespInsts |-> ZeroResponse]
    /\ respState = [i \in RespInsts |-> "free"]
    /\ lastOp = NoOp

fixedVars == <<byteStillNeeded, caller, fixStart, fixOut, fixBudget, fixResult>>

InitCopy ==
    /\ src \in Sources
    /\ srcEnd \in {"eof", "err"}
    /\ rd = 0 /\ pos = 0
    /\ out = <<>> /\ sniffed = <<>>
    /\ cpc = "respLine" /\ result = "none"
    /\ contentLength = -2
    /\ byteStillNeeded = 0 /\ caller = "none"
    /\ chunkSize = -1 /\ sizes = <<>> /\ dataOut = 0
    /\ fixStart = 0 /\ fixOut = 0 /\ fixBudget = 0 /\ fixResult = "none"
    /\ hdrEnd = 0

\* respLine.Parse, then the response line is written and shown to the sniffer
RespLineStep ==
    /\ cpc = "respLine"
    /\ LET e == LineEnd(pos)
           line == SubSeq(src, pos + 1, e)
       IN  IF e = 0 \/ ~IsResponseLine(line)
           THEN /\ pos' = (IF e = 0 THEN Len(src) ELSE e)
                /\ rd' \in ReadAhead(pos')
                /\ cpc' = "done" /\ result' = "errStartLine"
                /\ UNCHANGED <<out, sniffed>>
           ELSE /\ pos' = e
                /\ rd' \in ReadAhead(e)
                /\ \/ WriteOk(line) /\ cpc' = "header" /\ result' = result
                   \/ WriteFails(line) /\ cpc' = "done" /\ result' = "errWrite"
    /\ UNCHANGED <<src, srcEnd, contentLength, chunkSize, sizes, dataOut, hdrEnd>>
    /\ UNCHANGED fixedVars

\* header.ParseHeaderFields into the scratch buffer, which is then written
HeaderStep ==
    /\ cpc = "header"
    /\ LET h == HeaderScan(pos, -2)
           buffer == SubSeq(src, pos + 1, h.end)
       IN  /\ pos' = h.end
           /\ rd' \in ReadAhead(h.end)
           /\ IF ~h.ok
              THEN /\ cpc' = "done" /\ result' = "errHeader"
                   /\ UNCHANGED <<out, sniffed, contentLength, hdrEnd>>
              ELSE /\ contentLength' = h.cl
                   /\ hdrEnd' = h.end
                   /\ \/ WriteOk(buffer) /\ cpc' = "copyBody" /\ result' = result
                      \/ WriteFails(buffer) /\ cpc' = "done" /\ result' = "errWrite"
    /\ UNCHANGED <<src, srcEnd, chunkSize, sizes, dataOut>>
    /\ UNCHANGED fixedVars

\* copyBody: dispatch on the header
CopyBodyStep ==
    /\ cpc = "copyBody"
    /\ UNCHANGED <<src, srcEnd, rd, pos, out, sniffed, contentLength, chunkSize,
                   sizes, dataOut, hdrEnd>>
    /\ IF BodyMode = "fixed"
       THEN EnterFixed(contentLength, "fixed") /\ result' = result
       ELSE IF BodyMode = "chunked"
       THEN cpc' = "chunkSize" /\ result' = result /\ UNCHANGED fixedVars
       ELSE IF BodyMode = "identity"
       THEN EnterFixed(MaxInt64, "identity") /\ result' = result
       ELSE cpc' = "done" /\ result' = "ok" /\ UNCHANGED fixedVars

\* copyBodyChunked: one chunk-size line is parsed, written and sniffed, then
\* the fixed-size copy of the chunk starts
ChunkSizeStep ==
    /\ cpc = "chunkSize"
    /\ LET c == ParseChunkSize(pos)
       IN  /\ pos' = c.end
           /\ rd' \in ReadAhead(c.end)
           /\ IF ~c.ok
              THEN /\ cpc' = "done" /\ result' = "errChunk"
                   /\ UNCHANGED <<out, sniffed, chunkSize, sizes>>
                   /\ UNCHANGED fixedVars
              ELSE /\ chunkSize' = c.n
                   /\ sizes' = Append(sizes, c.n)
                   /\ \/ /\ WriteOk(c.buf)
                         /\ EnterFixed(ChunkBudget(c.n), "chunked")
                         /\ result' = result
                      \/ /\ WriteFails(c.buf)
                         /\ cpc' = "done" /\ result' = "errWrite"
                         /\ UNCHANGED fixedVars
    /\ UNCHANGED <<src, srcEnd, contentLength, dataOut, hdrEnd>>

\* src.Peek(1): values rd can take; the reader fills its buffer when it is
\* empty, and nothing arrives once the stream has ended
PeekFill ==
    IF rd > pos THEN {rd}
    ELSE IF rd = Len(src) THEN {rd}
    ELSE (rd + 1)..Min(Len(src), rd + BufSize)

\* mutant: the loop goes on when the one-byte peek found nothing
PeekOneEmpty_Never(r1) == FALSE

\* copyBodyFixedSize: the one-byte peek found nothing, len(b) == 0
PeekOneEmpty(r1) == r1 = pos

\* one of the two panic() calls of copyBodyFixedSize is reached
FixedPanic ==
    /\ cpc' = "panic" /\ result' = "panic" /\ fixResult' = "panic"

\* copyBodyFixedSize: one iteration of its loop
FixedStep ==
    /\ cpc = "fixed"
    /\ UNCHANGED <<src, srcEnd, contentLength, chunkSize, sizes, hdrEnd, caller,
                   fixStart, fixOut, fixBudget>>
    /\ \E r1 \in PeekFill :
         IF PeekOneEmpty(r1)
         THEN \* the stream has ended, by EOF or by an error
              /\ ReturnFixed("EOF")
              /\ UNCHANGED <<rd, pos, out, sniffed, byteStillNeeded, dataOut>>
         ELSE LET b == SubSeq(src, pos + 1, r1)
                  n == BytesShouldRead(Len(b), byteStillNeeded)
              IN  IF Len(b) = 0
                  THEN \* Peek(Buffered()) returned no data
                       /\ FixedPanic
                       /\ UNCHANGED <<rd, pos, out, sniffed, byteStillNeeded, dataOut>>
                  ELSE /\ rd' = r1
                       /\ byteStillNeeded' = byteStillNeeded - n
                       /\ \/ /\ WriteOk(SubSeq(b, 1, n))
                             /\ IF n < 0 \/ n > Len(b)
                                THEN \* Discard(n) failed
                                     /\ FixedPanic
                                     /\ pos' = pos /\ dataOut' = dataOut
                                ELSE /\ pos' = pos + n
                                     /\ dataOut' = (IF caller = "chunked"
                                                    THEN dataOut + Min(n, Max(0, byteStillNeeded - Len(strCRLF)))
                                                    ELSE dataOut)
                                     /\ IF byteStillNeeded' = 0
                                        THEN ReturnFixed("nil")
                                        ELSE cpc' = cpc /\ result' = result /\ fixResult' = fixResult
                          \/ /\ WriteFails(SubSeq(b, 1, n))
                             /\ pos' = pos
                             /\ dataOut' = dataOut
                             /\ ReturnFixed("errWrite")

NextCopy ==
    \/ RespLineStep /\ UNCHANGED <<connVars, serveVars, objVars>>
    \/ HeaderStep /\ UNCHANGED <<connVars, serveVars, objVars>>
    \/ CopyBodyStep /\ UNCHANGED <<connVars, serveVars, objVars>>
    \/ ChunkSizeStep /\ UNCHANGED <<connVars, serveVars, objVars>>
    \/ FixedStep /\ UNCHANGED <<connVars, serveVars, objVars>>

\* Response.ReadFrom alone: no connection, no server
InitCopyOnly == InitCopy /\ ConnIdle /\ ServeIdle /\ ObjIdle

SpecCopy == InitCopyOnly /\ [][NextCopy]_vars

---------------------------------------------------------------------------
(* Inputs of a connection: what the client and the origin send *)

ReqLineConnect == <<"C">> \o strCRLF   \* CONNECT host:port HTTP/1.1
ReqLineGet == <<"G">> \o strCRLF       \* GET http://host/path HTTP/1.1
ReqLineOrigin == <<"O">> \o strCRLF    \* GET /path HTTP/1.1, no authority
ReqLineBad == <<"B">> \o strCRLF       \* not a request line

\* a header block: empty, or with a Host header
ReqHeaders == {strCRLF, <<"H">> \o strCRLF \o strCRLF}

PayloadBytes(n) == [i \in 1..n |-> IF i % 2 = 1 THEN "p" ELSE "q"]
OriginBytes(n) == [i \in 1..n |-> IF i % 2 = 1 THEN "a" ELSE "b"]

ClientStreams ==
    {ReqLineConnect \o h \o PayloadBytes(n) : h \in ReqHeaders, n \in 0..MaxPayload}
    \cup {ReqLineGet \o h : h \in ReqHeaders}
    \cup {ReqLineOrigin \o h : h \in ReqHeaders}
    \cup {ReqLineBad \o strCRLF, <<"C">>}

OriginStreams == {OriginBytes(n) : n \in 0..MaxOrigin}

\* header.RequestLine.Parse on one line, as InitWithProxyReader calls it
\* (no host is injected): what the line is
ParseRequestLine(line) ==
    IF Len(line) < 3 \/ SubSeq(line, Len(line) - 1, Len(line)) # strCRLF THEN "bad"
    ELSE IF line[1] = "C" THEN "connect"
    ELSE IF line[1] = "G" THEN "http"
    ELSE IF line[1] = "O" THEN "nohost"
    ELSE "bad"

\* the kind of request a client stream starts with
ReqKind(s) ==
    IF FirstLF(s, 0) = 0 THEN "bad" ELSE ParseRequestLine(SubSeq(s, 1, FirstLF(s, 0)))

\* index of the last byte of the header block that starts after index p
RECURSIVE BlockEnd(_, _)
BlockEnd(s, p) ==
    LET e == FirstLF(s, p)
    IN  IF e = 0 THEN Len(s)
        ELSE IF SubSeq(s, p + 1, e) = strCRLF THEN e
        ELSE BlockEnd(s, e)

\* what the client sends after its complete request (line and header block)
Payload(s) == SubSeq(s, BlockEnd(s, FirstLF(s, 0)) + 1, Len(s))

\* the header block of the request carries a Host header
HasHostHeader(s) ==
    /\ FirstLF(s, 0) > 0
    /\ \E i \in (FirstLF(s, 0) + 1)..BlockEnd(s, FirstLF(s, 0)) : s[i] = "H"

\* the request line is in origin-form: a path, no authority
IsOriginForm(s) == Len(s) >= 3 /\ SubSeq(s, 1, 3) = ReqLineOrigin

---------------------------------------------------------------------------
(* Pools, deferred calls *)

Count(ops, op) == Cardinality({i \in DOMAIN ops : ops[i] = op})

\* run pool operations and deferred calls in order
Do(ops) ==
    /\ events' = events \o ops
    /\ acq' = [o \in PoolObjs |-> acq[o] + Count(ops, <<"acquire", o>>)]
    /\ rel' = [o \in PoolObjs |-> rel[o] + Count(ops, <<"release", o>>)]

\* mutant: the closure releases the Request and forgets the reader
ReleaseReqAndReader_NoReader == <<(<<"release", "req1">>)>>

\* serveConn's closure releaseReqAndReader
ReleaseReqAndReader == <<(<<"release", "req1">>), (<<"release", "reader1">>)>>

\* client.Do has come back to the handler
ClientDoExit == <<(<<"exit", "client.Do">>)>>

\* mutant: the writer is released before it is flushed
HTTPDefers_ReleaseFirst ==
    <<(<<"release", "resp">>), (<<"release", "writer">>), (<<"flush", "writer">>)>>

\* the deferred calls of handleHTTPConns, in the order they run
HTTPDefers ==
    <<(<<"release", "resp">>), (<<"flush", "writer">>), (<<"release", "writer">>)>>

\* the deferred calls of decryptConnect once the Response is acquired
MitmDefers ==
    <<(<<"release", "resp">>), (<<"flush", "writer">>), (<<"release", "writer">>),
      (<<"release", "req2">>), (<<"release", "reader2">>), (<<"close", "tls">>)>>

\* the deferred calls of decryptConnect when the Request cannot be bound
MitmEarlyDefers ==
    <<(<<"release", "req2">>), (<<"release", "reader2">>), (<<"close", "tls">>)>>

\* mutant: the two CONNECT handlers are swapped
HTTPSHandler_Swapped(d) == IF d THEN "tunnel" ELSE "mitm"

\* handleHTTPSConns: the handler a CONNECT goes to
HTTPSHandler(d) == IF d THEN "mitm" ELSE "tunnel"

\* mutant: the wait group counts one copier only
WaitGroupDone_One == c1 = "done" \/ c2 = "done"

\* tunnelConnect: wg.Wait() returns
WaitGroupDone == c1 = "done" /\ c2 = "done"

\* mutant: the error of the origin-to-client copier is not looked at
TunnelResult_FirstOnly(e1, e2) ==
    IF e1 # "nil" THEN [where |-> "tunneling request", err |-> e1]
    ELSE [where |-> "tunnel", err |-> "nil"]

\* tunnelConnect: the error it returns after wg.Wait()
TunnelResult(e1, e2) ==
    IF e1 # "nil" THEN [where |-> "tunneling request", err |-> e1]
    ELSE IF e2 # "nil" THEN [where |-> "tunneling response", err |-> e2]
    ELSE [where |-> "tunnel", err |-> "nil"]

\* mutant: the Connection: close header is left out of the response
WriteFastError_NoClose(status, n) ==
    IF n = 0 THEN <<>>
    ELSE IF n = 1 THEN <<status>>
    ELSE <<status, "Content-Type: text/plain", "msg">>

\* writeFastError: what reaches the connection when the first n of its two
\* writes (the status line; the headers with the message) succeed
WriteFastError(status, n) ==
    IF n = 0 THEN <<>>
    ELSE IF n = 1 THEN <<status>>
    ELSE <<status, "Connection: close", "Content-Type: text/plain", "msg">>

\* sendHTTPSProxyStatusOK: the bytes it writes
StatusOK == <<"HTTP200">>

\* mutant: the answer to a failed dial is the 200 OK
StatusBadGateway_OK == <<"HTTP200">>

\* sendHTTPSProxyStatusBadGateway: the bytes it writes
StatusBadGateway == <<"HTTP501">>

\* a write to the client connection: taken whole, or failed
WriteClient(p, ok) == toClient' = (IF ok THEN toClient \o p ELSE toClient)

---------------------------------------------------------------------------
(* Proxy.serveConn and the handlers, step by step *)

\* no response is being read
CopyIdle ==
    /\ src = <<>> /\ srcEnd = "eof" /\ rd = 0 /\ pos = 0
    /\ out = <<>> /\ sniffed = <<>>
    /\ cpc = "idle" /\ result = "none"
    /\ contentLength = -2
    /\ byteStillNeeded = 0 /\ caller = "none"
    /\ chunkSize = -1 /\ sizes = <<>> /\ dataOut = 0
    /\ fixStart = 0 /\ fixOut = 0 /\ fixBudget = 0 /\ fixResult = "none"
    /\ hdrEnd = 0

InitConn ==
    /\ cSrc \in ClientStreams
    /\ cEnd \in {"eof", "err", "open"}
    /\ cSent = 0 /\ crd = 0
    \* an origin and a decryption policy matter to a CONNECT only
    /\ oSrc \in (IF ReqKind(cSrc) = "connect" THEN OriginStreams ELSE {<<>>})
    /\ oEnd \in (IF ReqKind(cSrc) = "connect" THEN {"eof", "err", "open"} ELSE {"eof"})
    /\ ord = 0
    /\ decrypt \in (IF ReqKind(cSrc) = "connect" THEN BOOLEAN ELSE {FALSE})
    /\ pc = "start" /\ ret = [where |-> "none", err |-> "none"]
    /\ handlers = <<>>
    /\ acq = [o \in PoolObjs |-> 0] /\ rel = [o \in PoolObjs |-> 0]
    /\ events = <<>>
    /\ toClient = <<>> /\ toOrigin = <<>>
    /\ c1 = "idle" /\ c2 = "idle" /\ err1 = "nil" /\ err2 = "nil"
    /\ tunnelConn = "none" /\ conn = "open"

clientVars == <<cSrc, cEnd, oSrc, oEnd, decrypt>>
copierVars == <<c1, c2, err1, err2>>

Return(where, err) == pc' = "done" /\ ret' = [where |-> where, err |-> err]

\* a panic leaves serveConn: only deferred calls run on the way out
Panic(where) == pc' = "panic" /\ ret' = [where |-> where, err |-> "panic"]

\* serveConn or the tunnel still reads the client's bytes from the socket
ReadsClient == pc \in {"start", "https", "tunnel_dial", "tunnel_ok", "wait"}

\* the client sends more of its bytes
ClientSend ==
    /\ ReadsClient
    /\ cSent < Len(cSrc)
    /\ cSent' \in (cSent + 1)..Len(cSrc)
    /\ UNCHANGED <<clientVars, copierVars, crd, ord, pc, ret, handlers, acq, rel,
                   events, toClient, toOrigin, tunnelConn, conn>>

\* serveConn up to the dispatch: the reader and the Request are acquired and
\* InitWithProxyReader reads the request line through the reader
ServeConnStart ==
    /\ pc = "start"
    /\ LET e == FirstLF(cSrc, 0)
           kind == ReqKind(cSrc)
           acquired == <<(<<"acquire", "reader1">>), (<<"acquire", "req1">>)>>
       IN  /\ \/ e > 0 /\ cSent >= e
              \/ e = 0 /\ cSent = Len(cSrc) /\ cEnd # "open"
           /\ crd' \in (IF e = 0 THEN {Len(cSrc)}
                        ELSE e..Min(cSent, e - 1 + ConnBufSize))
           /\ IF kind = "bad"
              THEN /\ Do(acquired \o ReleaseReqAndReader)
                   /\ Return("read http request header", "errParse")
                   /\ UNCHANGED toClient
              ELSE IF kind = "nohost"
              THEN /\ Do(acquired \o ReleaseReqAndReader
                           \o <<(<<"writeFastError", "400">>)>>)
                   /\ \E n \in 0..2 :
                        /\ toClient' = toClient \o WriteFastError("HTTP400", n)
                        /\ Return("read http request header",
                                  IF n = 2 THEN "errNonProxy" ELSE "errResponse")
              ELSE IF kind = "http"
              THEN /\ Do(acquired)
                   /\ pc' = "http" /\ ret' = ret
                   /\ UNCHANGED toClient
              ELSE /\ Do(acquired \o ReleaseReqAndReader)
                   /\ pc' = "https" /\ ret' = ret
                   /\ UNCHANGED toClient
    /\ UNCHANGED <<clientVars, copierVars, cSent, ord, handlers, toOrigin,
                   tunnelConn, conn>>

\* handleHTTPConns up to client.Do: the writer and the Response are acquired
HandleHTTP ==
    /\ pc = "http"
    /\ handlers' = Append(handlers, "http")
    /\ Do(<<(<<"acquire", "writer">>), (<<"acquire", "resp">>)>>)
    /\ pc' = "http_do"
    /\ UNCHANGED <<clientVars, copierVars, cSent, crd, ord, ret, toClient,
                   toOrigin, tunnelConn, conn>>

\* client.Do returns; handleHTTPConns' deferred calls run, then serveConn
\* releases the Request and the reader
HttpDo ==
    /\ pc = "http_do"
    /\ \E r \in {"nil", "errBefore", "errAfter", "panic"} :
         /\ toClient' = (IF r = "nil" THEN toClient \o <<"RESPONSE">>
                         ELSE IF r = "errAfter" THEN toClient \o <<"PARTIAL">>
                         ELSE toClient)
         /\ IF r = "panic"
            THEN \* the panic unwinds handleHTTPConns, whose deferred calls
                 \* run, and then serveConn, which has deferred nothing
                 /\ Panic("http")
                 /\ Do(ClientDoExit \o HTTPDefers)
            ELSE /\ Return("http", r)
                 /\ Do(ClientDoExit \o HTTPDefers \o ReleaseReqAndReader)
    /\ UNCHANGED <<clientVars, copierVars, cSent, crd, ord, handlers, toOrigin,
                   tunnelConn, conn>>

\* handleHTTPSConns: MITM or opaque tunnel
HandleHTTPS ==
    /\ pc = "https"
    /\ handlers' = Append(handlers, HTTPSHandler(decrypt))
    /\ pc' = (IF HTTPSHandler(decrypt) = "mitm" THEN "mitm_sign" ELSE "tunnel_dial")
    /\ UNCHANGED <<clientVars, copierVars, cSent, crd, ord, ret, acq, rel, events,
                   toClient, toOrigin, tunnelConn, conn>>

\* tunnelConnect: transport.Dial; a failed dial is answered with 501
TunnelDial ==
    /\ pc = "tunnel_dial"
    /\ \/ /\ tunnelConn' = "open"
          /\ pc' = "tunnel_ok" /\ ret' = ret
          /\ UNCHANGED toClient
       \/ /\ \E ok \in BOOLEAN : WriteClient(StatusBadGateway, ok)
          /\ Return("dialing to host", "errDial")
          /\ UNCHANGED tunnelConn
    /\ UNCHANGED <<clientVars, copierVars, cSent, crd, ord, handlers, acq, rel,
                   events, toOrigin, conn>>

\* tunnelConnect: 200 OK is sent and the two copiers are started
TunnelHandshake ==
    /\ pc = "tunnel_ok"
    /\ \/ /\ WriteClient(StatusOK, TRUE)
          /\ c1' = "run" /\ c2' = "run"
          /\ pc' = "wait" /\ ret' = ret
          /\ UNCHANGED <<tunnelConn, events>>
       \/ /\ WriteClient(StatusOK, FALSE)
          /\ tunnelConn' = "closed"
          /\ events' = Append(events, <<"close", "tunnelConn">>)
          /\ Return("handshaking with client", "errWrite")
          /\ UNCHANGED <<c1, c2>>
    /\ UNCHANGED <<clientVars, err1, err2, cSent, crd, ord, handlers, acq, rel,
                   toOrigin, conn>>

\* transport.Forward(tunnelConn, conn): one read from the client and the
\* write of what it read, or the end of the client's stream
Copier1 ==
    /\ c1 = "run"
    /\ IF crd < cSent
       THEN /\ crd' = cSent
            /\ \/ /\ toOrigin' = toOrigin \o SubSeq(cSrc, crd + 1, cSent)
                  /\ UNCHANGED <<c1, err1>>
               \/ /\ c1' = "done" /\ err1' = "errWrite"
                  /\ UNCHANGED toOrigin
       ELSE /\ cSent = Len(cSrc) /\ cEnd # "open"
            /\ c1' = "done"
            /\ err1' = (IF cEnd = "eof" THEN "nil" ELSE "errRead")
            /\ UNCHANGED <<crd, toOrigin>>
    /\ UNCHANGED <<clientVars, c2, err2, cSent, ord, pc, ret, handlers, acq, rel,
                   events, toClient, tunnelConn, conn>>

\* transport.Forward(conn, tunnelConn): the same from the origin to the client
Copier2 ==
    /\ c2 = "run"
    /\ IF ord < Len(oSrc)
       THEN /\ \E n \in (ord + 1)..Len(oSrc) :
              /\ ord' = n
              /\ \/ /\ toClient' = toClient \o SubSeq(oSrc, ord + 1, n)
                    /\ UNCHANGED <<c2, err2>>
                 \/ /\ c2' = "done" /\ err2' = "errWrite"
                    /\ UNCHANGED toClient
       ELSE /\ oEnd # "open"
            /\ c2' = "done"
            /\ err2' = (IF oEnd = "eof" THEN "nil" ELSE "errRead")
            /\ UNCHANGED <<ord, toClient>>
    /\ UNCHANGED <<clientVars, c1, err1, cSent, crd, pc, ret, handlers, acq, rel,
                   events, toOrigin, tunnelConn, conn>>

\* tunnelConnect after wg.Wait(): the result is chosen, tunnelConn is closed
TunnelWait ==
    /\ pc = "wait"
    /\ WaitGroupDone
    /\ tunnelConn' = "closed"
    /\ events' = Append(events, <<"close", "tunnelConn">>)
    /\ pc' = "done" /\ ret' = TunnelResult(err1, err2)
    /\ UNCHANGED <<clientVars, copierVars, cSent, crd, ord, handlers, acq, rel,
                   toClient, toOrigin, conn>>

\* decryptConnect: signFakeCert; a failure is answered with 501
MitmSign ==
    /\ pc = "mitm_sign"
    /\ \/ /\ pc' = "mitm_hs" /\ ret' = ret
          /\ UNCHANGED toClient
       \/ /\ \E ok \in BOOLEAN : WriteClient(StatusBadGateway, ok)
          /\ Return("signing fake certificate", "errSign")
    /\ UNCHANGED <<clientVars, copierVars, cSent, crd, ord, handlers, acq, rel,
                   events, toOrigin, tunnelConn, conn>>

\* decryptConnect: handShake() sends 200 OK and runs the TLS handshake, in
\* which GetCertificate captures the server name the client indicates
MitmHandshake ==
    /\ pc = "mitm_hs"
    /\ \/ \* the 200 OK cannot be written: no server name was captured
          /\ WriteClient(StatusOK, FALSE)
          /\ Return("handshaking with client", "errNoSNI")
          /\ UNCHANGED <<events, conn>>
       \/ \* the TLS handshake fails, before or after the name was captured
          /\ WriteClient(StatusOK, TRUE)
          /\ events' = Append(events, <<"close", "tls">>)
          /\ conn' = "closed"
          /\ \E named \in BOOLEAN :
               Return("handshaking with client",
                      IF named THEN "errHandshake" ELSE "errNoSNI")
       \/ \* the handshake succeeds, the client indicated no server name
          /\ WriteClient(StatusOK, TRUE)
          /\ Return("handshaking with client", "errNoSNI")
          /\ UNCHANGED <<events, conn>>
       \/ \* the handshake succeeds and the server name is known
          /\ WriteClient(StatusOK, TRUE)
          /\ pc' = "mitm_req" /\ ret' = ret
          /\ UNCHANGED <<events, conn>>
    /\ UNCHANGED <<clientVars, copierVars, cSent, crd, ord, handlers, acq, rel,
                   toOrigin, tunnelConn>>

\* decryptConnect: a reader and a Request are acquired for the decrypted
\* stream and bound; then the writer and the Response are acquired
MitmRequest ==
    /\ pc = "mitm_req"
    /\ LET acquired == <<(<<"acquire", "reader2">>), (<<"acquire", "req2">>)>>
       IN  \/ /\ Do(acquired \o MitmEarlyDefers)
              /\ conn' = "closed"
              /\ Return("read MITMed https request header", "errParse")
           \/ /\ Do(acquired \o <<(<<"acquire", "writer">>), (<<"acquire", "resp">>)>>)
              /\ pc' = "mitm_do" /\ ret' = ret
              /\ UNCHANGED conn
    /\ UNCHANGED <<clientVars, copierVars, cSent, crd, ord, handlers, toClient,
                   toOrigin, tunnelConn>>

\* decryptConnect: client.Do returns and the deferred calls run
MitmDo ==
    /\ pc = "mitm_do"
    /\ \E r \in {"nil", "errBefore", "errAfter", "panic"} :
         /\ toClient' = (IF r = "nil" THEN toClient \o <<"RESPONSE">>
                         ELSE IF r = "errAfter" THEN toClient \o <<"PARTIAL">>
                         ELSE toClient)
         /\ IF r = "panic"
            THEN Panic("MITMed https client request")
            ELSE Return("MITMed https client request", r)
    /\ Do(ClientDoExit \o MitmDefers)
    /\ conn' = "closed"
    /\ UNCHANGED <<clientVars, copierVars, cSent, crd, ord, handlers, toOrigin,
                   tunnelConn>>

\* the worker closes the connection after serveConn has returned
WorkerClose ==
    /\ pc = "done"
    /\ pc' = "closed"
    /\ conn' = "closed"
    /\ events' = Append(events, <<"close", "conn">>)
    /\ UNCHANGED <<clientVars, copierVars, cSent, crd, ord, ret, handlers, acq,
                   rel, toClient, toOrigin, tunnelConn>>

\* the steps the proxy takes
ProxyStep ==
    \/ ServeConnStart
    \/ HandleHTTP
    \/ HttpDo
    \/ HandleHTTPS
    \/ TunnelDial
    \/ TunnelHandshake
    \/ Copier1
    \/ Copier2
    \/ TunnelWait
    \/ MitmSign
    \/ MitmHandshake
    \/ MitmRequest
    \/ MitmDo
    \/ WorkerClose

NextConn ==
    \/ ClientSend /\ UNCHANGED <<copyVars, serveVars, objVars>>
    \/ ServeConnStart /\ UNCHANGED <<copyVars, serveVars, objVars>>
    \/ HandleHTTP /\ UNCHANGED <<copyVars, serveVars, objVars>>
    \/ HttpDo /\ UNCHANGED <<copyVars, serveVars, objVars>>
    \/ HandleHTTPS /\ UNCHANGED <<copyVars, serveVars, objVars>>
    \/ TunnelDial /\ UNCHANGED <<copyVars, serveVars, objVars>>
    \/ TunnelHandshake /\ UNCHANGED <<copyVars, serveVars, objVars>>
    \/ Copier1 /\ UNCHANGED <<copyVars, serveVars, objVars>>
    \/ Copier2 /\ UNCHANGED <<copyVars, serveVars, objVars>>
    \/ TunnelWait /\ UNCHANGED <<copyVars, serveVars, objVars>>
    \/ MitmSign /\ UNCHANGED <<copyVars, serveVars, objVars>>
    \/ MitmHandshake /\ UNCHANGED <<copyVars, serveVars, objVars>>
    \/ MitmRequest /\ UNCHANGED <<copyVars, serveVars, objVars>>
    \/ MitmDo /\ UNCHANGED <<copyVars, serveVars, objVars>>
    \/ WorkerClose /\ UNCHANGED <<copyVars, serveVars, objVars>>

\* one connection alone
InitConnOnly == InitConn /\ CopyIdle /\ ServeIdle /\ ObjIdle

SpecConn == InitConnOnly /\ [][NextConn]_vars

\* every goroutine of the proxy that can take a step eventually takes one
FairSpecConn == SpecConn /\ WF_vars(ProxyStep /\ UNCHANGED <<copyVars, serveVars, objVars>>)

---------------------------------------------------------------------------
(* Proxy.Serve: accept loop and worker pool *)

\* what ln.Accept() can return: a connection or an error
AcceptOutcomes == {"conn", "temporary", "eof", "closed", "permanent"}

\* mutant: a temporary error is returned like a permanent one
AcceptConnResult_TempFatal(e) ==
    IF e = "conn" THEN "conn"
    ELSE IF e \in {"eof", "closed"} THEN "EOF"
    ELSE e

\* acceptConn: a temporary error is retried, EOF and "use of closed network
\* connection" become io.EOF, any other error is returned as it is
AcceptConnResult(e) ==
    IF e = "conn" THEN "conn"
    ELSE IF e = "temporary" THEN "retry"
    ELSE IF e \in {"eof", "closed"} THEN "EOF"
    ELSE e

\* Serve: what it returns for the error of acceptConn
ServeResult(err) == IF err = "EOF" THEN "nil" ELSE err

Serving == {c \in Conns : cst[c] = "serving"}

\* server.WorkerPool.Serve: a worker takes the connection unless
\* MaxWorkersCount of them are busy
WorkerPoolServe(load) == load < DefaultConcurrency

InitServe ==
    /\ spc = "init" /\ lastAccept = "none" /\ tempErrs = 0
    /\ cur = 0 /\ accepted = 0
    /\ cst = [c \in Conns |-> "none"]
    /\ cinfo = [c \in Conns |-> NoInfo]
    /\ wp = "none" /\ serveRet = "none"

\* Serve: p.init() and wp.Start()
ServeInit ==
    /\ spc = "init"
    /\ \/ /\ spc' = "returned" /\ serveRet' = "errInit"
          /\ UNCHANGED wp
       \/ /\ wp' = "running"
          /\ spc' = "accept" /\ serveRet' = serveRet
    /\ UNCHANGED <<lastAccept, tempErrs, cur, accepted, cst, cinfo>>

\* Serve: acceptConn returns a connection or an error, or retries
AcceptConn ==
    /\ spc = "accept"
    /\ \E e \in AcceptOutcomes :
         /\ e = "conn" => accepted < MaxConns
         /\ e = "temporary" => tempErrs < MaxTempErrs
         /\ lastAccept' = e
         /\ LET r == AcceptConnResult(e)
            IN  IF r = "conn"
                THEN /\ accepted' = accepted + 1
                     /\ cur' = accepted + 1
                     /\ cst' = [cst EXCEPT ![accepted + 1] = "accepted"]
                     /\ spc' = "dispatch"
                     /\ UNCHANGED <<tempErrs, wp, serveRet>>
                ELSE IF r = "retry"
                THEN /\ tempErrs' = tempErrs + 1
                     /\ UNCHANGED <<spc, cur, accepted, cst, wp, serveRet>>
                ELSE /\ wp' = "stopped"
                     /\ serveRet' = ServeResult(r)
                     /\ spc' = "returned"
                     /\ UNCHANGED <<tempErrs, cur, accepted, cst>>
    /\ UNCHANGED cinfo

\* Serve: wp.Serve(c) hands the connection to a worker or refuses it
Dispatch ==
    /\ spc = "dispatch"
    /\ LET load == Cardinality(Serving)
       IN  IF WorkerPoolServe(load)
           THEN /\ cst' = [cst EXCEPT ![cur] = "serving"]
                /\ cinfo' = [cinfo EXCEPT ![cur].served = TRUE, ![cur].load = load]
                /\ cur' = 0
                /\ spc' = "accept"
           ELSE /\ cst' = [cst EXCEPT ![cur] = "rejecting"]
                /\ cinfo' = [cinfo EXCEPT ![cur].rejected = TRUE, ![cur].load = load]
                /\ spc' = "reject"
                /\ UNCHANGED cur
    /\ UNCHANGED <<lastAccept, tempErrs, accepted, wp, serveRet>>

\* Serve: the refused connection gets writeFastError(503)
Reject ==
    /\ spc = "reject"
    /\ \E n \in 0..2 :
         cinfo' = [cinfo EXCEPT ![cur].wrote = WriteFastError("HTTP503", n)]
    /\ spc' = "reject_close"
    /\ UNCHANGED <<lastAccept, tempErrs, cur, accepted, cst, wp, serveRet>>

\* Serve: c.Close(), the log line and the sleep, then c = nil
RejectClose ==
    /\ spc = "reject_close"
    /\ cst' = [cst EXCEPT ![cur] = "closed"]
    /\ cur' = 0
    /\ spc' = "accept"
    /\ UNCHANGED <<lastAccept, tempErrs, accepted, cinfo, wp, serveRet>>

\* a worker: serveConn returns, with or without an error, and the worker
\* closes the connection
WorkerDone ==
    /\ \E c \in Serving, o \in {"nil", "errParse", "errTransport"} :
         /\ cst' = [cst EXCEPT ![c] = "closed"]
         /\ cinfo' = [cinfo EXCEPT ![c].outcome = o]
    /\ UNCHANGED <<spc, lastAccept, tempErrs, cur, accepted, wp, serveRet>>

NextServe ==
    \/ ServeInit /\ UNCHANGED <<copyVars, connVars, objVars>>
    \/ AcceptConn /\ UNCHANGED <<copyVars, connVars, objVars>>
    \/ Dispatch /\ UNCHANGED <<copyVars, connVars, objVars>>
    \/ Reject /\ UNCHANGED <<copyVars, connVars, objVars>>
    \/ RejectClose /\ UNCHANGED <<copyVars, connVars, objVars>>
    \/ WorkerDone /\ UNCHANGED <<copyVars, connVars, objVars>>

\* the server alone
InitServeOnly == InitServe /\ CopyIdle /\ ConnIdle /\ ObjIdle

SpecServe == InitServeOnly /\ [][NextServe]_vars

---------------------------------------------------------------------------
(* Request and Response objects and their pools *)

Readers == {"nil", "rd"}
Writers == {"nil", "wr"}
Sniffers == {"snA"}
ServerNames == {"", "name"}
\* what reqLine.Parse returns
ParseOutcomes == {"ok", "errParse", "errNoHost"}

\* mutant: a bound Request is bound again
InitWithReader_Rebind(r, reader, sniffer, isTLS, name, parse) ==
    IF reader = "nil" THEN [req |-> r, err |-> "nil reader"]
    ELSE IF isTLS /\ name = "" THEN [req |-> r, err |-> "empty tls server name"]
    ELSE IF parse # "ok" THEN [req |-> [r EXCEPT !.reqLine = "partial"], err |-> parse]
    ELSE [req |-> [r EXCEPT !.reader = reader, !.reqLine = "parsed",
                            !.sniffer = sniffer, !.isTLS = isTLS,
                            !.tlsServerName = name],
          err |-> "nil"]

\* Request.initWithReader: the Request afterwards and the error returned;
\* parse is what reqLine.Parse returns when it is reached
InitWithReader(r, reader, sniffer, isTLS, name, parse) ==
    IF r.reader # "nil" THEN [req |-> r, err |-> "already initialized"]
    ELSE IF reader = "nil" THEN [req |-> r, err |-> "nil reader"]
    ELSE IF isTLS /\ name = "" THEN [req |-> r, err |-> "empty tls server name"]
    ELSE IF parse # "ok" THEN [req |-> [r EXCEPT !.reqLine = "partial"], err |-> parse]
    ELSE [req |-> [r EXCEPT !.reader = reader, !.reqLine = "parsed",
                            !.sniffer = sniffer, !.isTLS = isTLS,
                            !.tlsServerName = name],
          err |-> "nil"]

\* Request.Reset
RequestReset(r) == [r EXCEPT !.reader = "nil", !.reqLine = "", !.header = ""]

\* Response.InitWithWriter
InitWithWriter(r, writer, sniffer) ==
    IF r.writer # "nil" THEN [resp |-> r, err |-> "already initialized"]
    ELSE IF writer = "nil" THEN [resp |-> r, err |-> "nil writer"]
    ELSE [resp |-> [r EXCEPT !.writer = writer, !.sniffer = sniffer], err |-> "nil"]

\* Response.Reset
ResponseReset(r) == [r EXCEPT !.writer = "nil", !.respLine = "", !.header = ""]

Op(op, obj, i, err) == [NoOp EXCEPT !.op = op, !.obj = obj, !.inst = i, !.err = err]

\* AcquireRequest: an instance from the pool as it was put there, or a new one
AcquireRequest ==
    /\ \E i \in ReqInsts :
         /\ \/ reqState[i] = "pooled" /\ requests' = requests
            \/ reqState[i] = "free" /\ requests' = [requests EXCEPT ![i] = ZeroRequest]
         /\ reqState' = [reqState EXCEPT ![i] = "owned"]
         /\ lastOp' = Op("acquire", "req", i, "nil")
    /\ UNCHANGED <<responses, respState>>

\* InitWithProxyReader and InitWithTLSClientReader
InitRequest ==
    /\ \E i \in ReqInsts, reader \in Readers, sniffer \in Sniffers,
          isTLS \in BOOLEAN, name \in ServerNames, parse \in ParseOutcomes :
         /\ reqState[i] = "owned"
         \* InitWithProxyReader passes no server name
         /\ ~isTLS => name = ""
         /\ LET r == InitWithReader(requests[i], reader, sniffer, isTLS, name, parse)
            IN  /\ requests' = [requests EXCEPT ![i] = r.req]
                /\ lastOp' = [op |-> "init", obj |-> "req", inst |-> i, err |-> r.err,
                              bound |-> requests[i].reader # "nil",
                              same |-> r.req = requests[i],
                              valid |-> /\ reader # "nil"
                                        /\ (isTLS => name # "")
                                        /\ parse = "ok"]
    /\ UNCHANGED <<reqState, responses, respState>>

\* Request.WriteTo: the header block is parsed from the reader
RequestWriteTo ==
    /\ \E i \in ReqInsts, ok \in BOOLEAN :
         /\ reqState[i] = "owned"
         /\ IF requests[i].reader = "nil"
            THEN /\ requests' = requests
                 /\ lastOp' = Op("writeTo", "req", i, "empty request")
            ELSE /\ requests' = [requests EXCEPT ![i].header = "parsed"]
                 /\ lastOp' = Op("writeTo", "req", i, IF ok THEN "nil" ELSE "errCopy")
    /\ UNCHANGED <<reqState, responses, respState>>

\* Request.Reset called by the owner
ResetRequest ==
    /\ \E i \in ReqInsts :
         /\ reqState[i] = "owned"
         /\ requests' = [requests EXCEPT ![i] = RequestReset(requests[i])]
         /\ lastOp' = Op("reset", "req", i, "nil")
    /\ UNCHANGED <<reqState, responses, respState>>

\* ReleaseRequest: Reset, then the instance goes to the pool
ReleaseRequest ==
    /\ \E i \in ReqInsts :
         /\ reqState[i] = "owned"
         /\ requests' = [requests EXCEPT ![i] = RequestReset(requests[i])]
         /\ reqState' = [reqState EXCEPT ![i] = "pooled"]
         /\ lastOp' = Op("release", "req", i, "nil")
    /\ UNCHANGED <<responses, respState>>

\* AcquireResponse
AcquireResponse ==
    /\ \E i \in RespInsts :
         /\ \/ respState[i] = "pooled" /\ responses' = responses
            \/ respState[i] = "free" /\ responses' = [responses EXCEPT ![i] = ZeroResponse]
         /\ respState' = [respState EXCEPT ![i] = "owned"]
         /\ lastOp' = Op("acquire", "resp", i, "nil")
    /\ UNCHANGED <<requests, reqState>>

\* Response.InitWithWriter
InitResponse ==
    /\ \E i \in RespInsts, writer \in Writers, sniffer \in Sniffers :
         /\ respState[i] = "owned"
         /\ LET r == InitWithWriter(responses[i], writer, sniffer)
            IN  /\ responses' = [responses EXCEPT ![i] = r.resp]
                /\ lastOp' = [op |-> "init", obj |-> "resp", inst |-> i, err |-> r.err,
                              bound |-> responses[i].writer # "nil",
                              same |-> r.resp = responses[i],
                              valid |-> writer # "nil"]
    /\ UNCHANGED <<requests, reqState, respState>>

\* Response.ReadFrom on a bound Response: the response line and the header
\* block are parsed
ResponseReadFrom ==
    /\ \E i \in RespInsts, ok \in BOOLEAN :
         /\ respState[i] = "owned"
         /\ responses[i].writer # "nil"
         /\ responses' = [responses EXCEPT ![i].respLine = "parsed",
                                           ![i].header = IF ok THEN "parsed" ELSE @]
         /\ lastOp' = Op("readFrom", "resp", i, IF ok THEN "nil" ELSE "errHeader")
    /\ UNCHANGED <<requests, reqState, respState>>

\* ReleaseResponse: Reset, then the instance goes to the pool
ReleaseResponse ==
    /\ \E i \in RespInsts :
         /\ respState[i] = "owned"
         /\ responses' = [responses EXCEPT ![i] = ResponseReset(responses[i])]
         /\ respState' = [respState EXCEPT ![i] = "pooled"]
         /\ lastOp' = Op("release", "resp", i, "nil")
    /\ UNCHANGED <<requests, reqState>>

NextObj ==
    \/ AcquireRequest /\ UNCHANGED <<copyVars, connVars, serveVars>>
    \/ InitRequest /\ UNCHANGED <<copyVars, connVars, serveVars>>
    \/ RequestWriteTo /\ UNCHANGED <<copyVars, connVars, serveVars>>
    \/ ResetRequest /\ UNCHANGED <<copyVars, connVars, serveVars>>
    \/ ReleaseRequest /\ UNCHANGED <<copyVars, connVars, serveVars>>
    \/ AcquireResponse /\ UNCHANGED <<copyVars, connVars, serveVars>>
    \/ InitResponse /\ UNCHANGED <<copyVars, connVars, serveVars>>
    \/ ResponseReadFrom /\ UNCHANGED <<copyVars, connVars, serveVars>>
    \/ ReleaseResponse /\ UNCHANGED <<copyVars, connVars, serveVars>>

\* the objects and their pools alone
InitObjOnly == ObjIdle /\ CopyIdle /\ ConnIdle /\ ServeIdle

SpecObj == InitObjOnly /\ [][NextObj]_vars

---------------------------------------------------------------------------
(* Properties of the copier (SpecCopy) *)

ReadFromOk == cpc = "done" /\ result = "ok"

\* C3: when Response.ReadFrom returns success, the bytes written to the
\* client-facing writer are exactly the bytes consumed from the upstream
\* reader, in order (status line, header block, body): a fixed body is
\* Content-Length bytes, an identity body is every byte up to the end of
\* the stream, a chunked body is forwarded with its size lines and CRLFs.
C3_ReadFromForwardsConsumed ==
    ReadFromOk =>
        /\ out = Prefix(src, pos)
        /\ hdrEnd <= pos
        /\ Prefix(out, Len(StatusLine)) = StatusLine
        /\ BodyMode = "fixed" => pos = hdrEnd + contentLength
        /\ BodyMode = "identity" => pos = Len(src)
        /\ BodyMode = "none" => pos = hdrEnd

\* C3 witness: a chunked response with chunk data was forwarded successfully
C3_Witness ==
    ReadFromOk /\ BodyMode = "chunked" /\ dataOut > 0 /\ Len(out) > hdrEnd + 5

\* a call of copyBodyFixedSize is running or has just returned
FixedCurrent ==
    \/ fixResult \in {"running", "EOF", "errWrite"}
    \/ fixResult = "nil" /\ (cpc = "chunkSize" \/ result = "ok")

\* C4: a fixed-size copy of budget N never has consumed more than N bytes
\* from the buffered reader; the bytes it has written are the bytes it has
\* consumed; when it returns success it has consumed and written exactly N,
\* so what follows the body is still unread in the reader.
C4_FixedCopyExactBudget ==
    FixedCurrent =>
        /\ fixBudget > 0
        /\ pos - fixStart <= fixBudget
        /\ pos <= rd
        /\ fixResult # "errWrite" =>
               SubSeq(out, fixOut + 1, Len(out)) = SubSeq(src, fixStart + 1, pos)
        /\ fixResult = "running" => byteStillNeeded = fixBudget - (pos - fixStart)
        /\ fixResult = "nil" =>
               /\ pos - fixStart = fixBudget
               /\ Len(out) - fixOut = fixBudget

\* C4 witness: a Content-Length body was copied and bytes that follow it
\* are buffered in the reader, unread
C4_Witness ==
    /\ ReadFromOk /\ caller = "fixed" /\ fixResult = "nil"
    /\ fixBudget = MaxLen /\ rd > pos

\* C5: in a chunked body the chunk-data bytes forwarded never exceed the sum
\* of the parsed chunk sizes and equal it when the copy succeeds; the copy
\* ends at the first zero-size chunk, having consumed that chunk's size line
\* and CRLF and nothing after them.
C5_ChunkedSizesAndEnd ==
    /\ dataOut <= SumSeq(sizes)
    /\ \A i \in 1..(Len(sizes) - 1) : sizes[i] # 0
    /\ (ReadFromOk /\ BodyMode = "chunked") =>
           /\ dataOut = SumSeq(sizes)
           /\ sizes # <<>> /\ sizes[Len(sizes)] = 0
           /\ pos = fixStart + Len(strCRLF)
           /\ Len(out) = pos

\* C5 witness: two chunks with data, then the zero-size chunk, with bytes
\* after it that are buffered and stay unconsumed
C5_Witness ==
    /\ ReadFromOk /\ BodyMode = "chunked"
    /\ Len(sizes) >= 2 /\ dataOut >= 2
    /\ pos < rd

\* C16: when the source ends before a fixed-size copy of budget N has
\* delivered N bytes, the copier reports UnexpectedEOF, not the clean end of
\* stream; what it wrote is at most N bytes and a prefix of the source.
C16_ShortSourceReportsUnexpectedEOF ==
    (cpc = "done" /\ caller = "fixed" /\ byteStillNeeded > 0
        /\ srcEnd = "eof" /\ pos = Len(src) /\ fixResult # "errWrite") =>
        /\ result = "errUnexpectedEOF"
        /\ result # "EOF"
        /\ Len(out) - fixOut <= fixBudget
        /\ SubSeq(out, fixOut + 1, Len(out))
               = SubSeq(src, fixStart + 1, fixStart + Len(out) - fixOut)

\* index of the end of the empty line that ends the trailer section which
\* starts after index p of s; 0 when s ends before it
RECURSIVE TrailerEnd(_, _)
TrailerEnd(s, p) ==
    LET e == FirstLF(s, p)
    IN  IF e = 0 THEN 0
        ELSE IF SubSeq(s, p + 1, e) = strCRLF THEN e
        ELSE TrailerEnd(s, e)

\* C17: a chunked copy that succeeds has consumed and forwarded the trailer
\* lines after the zero-size chunk line up to and including the final empty
\* line: it ends exactly at the end of the message.
C17_TrailersForwardedToMessageEnd ==
    (ReadFromOk /\ BodyMode = "chunked" /\ TrailerEnd(src, fixStart) > 0) =>
        /\ pos = TrailerEnd(src, fixStart)
        /\ out = Prefix(src, TrailerEnd(src, fixStart))

C22_ReadFailureNotSuccess ==
    /\ (ReadFromOk /\ BodyMode = "identity") => srcEnd = "eof"
    /\ (cpc = "done" /\ BodyMode \in {"fixed", "chunked"} /\ fixResult = "EOF") =>
          result # "ok"

\* C26: the two panics of the fixed-size loop are never reached, whatever
\* the budget copyBody passes and whatever the source: when the one-byte
\* peek has found a byte, the buffered bytes are at least one, the slice
\* written lies within them and its discard succeeds.
C26_FixedCopyNeverPanics ==
    /\ cpc # "panic" /\ result # "panic" /\ fixResult # "panic"
    /\ cpc = "fixed" =>
          /\ byteStillNeeded > 0 /\ byteStillNeeded <= fixBudget
          /\ pos <= rd /\ rd <= Len(src)

\* C26 witness: a chunk's copy wrote some bytes, then the one-byte peek
\* found the stream ended and the loop returned
C26_Witness ==
    /\ cpc = "done" /\ caller = "chunked"
    /\ fixResult = "EOF" /\ pos > fixStart
    /\ byteStillNeeded > 0

\* one iteration of a loop of copyBody makes progress: an iteration of the
\* fixed-size loop returns, or consumes at least one byte and lowers the
\* remaining budget; an iteration of the chunked loop consumes at least the
\* chunk-size line, or returns
IterationProgress ==
    /\ (cpc = "fixed" /\ cpc' = "fixed") =>
          (pos' > pos /\ byteStillNeeded' < byteStillNeeded)
    /\ cpc = "fixed" => pos' >= pos
    /\ (cpc = "chunkSize" /\ cpc' # "done") => pos' >= pos + 1 + Len(strCRLF)

\* how far ReadFrom is from returning: the bytes of the source not yet
\* consumed, then the steps left before the next byte is consumed
CopyRank ==
    CASE cpc = "respLine" -> 5
      [] cpc = "header" -> 4
      [] cpc = "copyBody" -> 3
      [] cpc = "chunkSize" -> 2
      [] cpc = "fixed" -> 1
      [] OTHER -> 0

Variant == 3 * (Len(src) - pos) + CopyRank

\* C25: copyBody terminates on every source that ends and every writer
\* whose writes return: while it has not returned it can take a step, every
\* iteration of its loops makes progress, and every step brings it nearer
\* to its return by a measure that cannot fall below zero.
C25_CopyBodyTerminates ==
    /\ [](cpc # "done" => ENABLED <<NextCopy>>_vars)
    /\ [][IterationProgress /\ Variant' < Variant /\ Variant' >= 0]_vars

\* C25 witness: a chunked copy went round both loops, two chunks and their
\* data, and returned
C25_Witness ==
    /\ cpc = "done" /\ result = "ok"
    /\ Len(sizes) = 2 /\ dataOut > 1
    /\ Variant < 3 * Len(src)

---------------------------------------------------------------------------
(* Properties of one connection (SpecConn) *)

Returned == pc \in {"done", "closed"}

\* C1: on every return path of serveConn each pooled object acquired for the
\* connection (buffered reader, Request, buffered writer, Response) has been
\* released exactly once when handling ends; none is released twice or
\* before it was acquired.
C1_PooledObjectsReleasedOnce ==
    /\ \A o \in PoolObjs : acq[o] <= 1 /\ rel[o] <= acq[o]
    /\ Returned => \A o \in PoolObjs : rel[o] = acq[o]
    /\ acq["reader1"] = acq["req1"]
    /\ pc # "start" => acq["reader1"] = 1

\* C1 witness: the MITM path has returned after using all six objects
C1_Witness ==
    /\ Returned
    /\ \A o \in PoolObjs : acq[o] = 1 /\ rel[o] = 1

\* C2: a connection takes exactly one path: a non-CONNECT request runs the
\* forward-HTTP handler only, a CONNECT runs the MITM handler only when
\* ShouldDecryptHost holds and the tunnel only when it does not; on
\* NoHostProvided the 400 response is written and no handler runs; on any
\* other request-line error no handler runs and nothing is written.
C2_ExactlyOnePath ==
    /\ Len(handlers) <= 1
    /\ Returned =>
         LET kind == ReqKind(cSrc)
             fast == Count(events, <<"writeFastError", "400">>)
         IN  /\ kind = "http" => handlers = <<"http">> /\ fast = 0
             /\ (kind = "connect" /\ decrypt) => handlers = <<"mitm">> /\ fast = 0
             /\ (kind = "connect" /\ ~decrypt) => handlers = <<"tunnel">> /\ fast = 0
             /\ kind = "nohost" =>
                    /\ handlers = <<>> /\ fast = 1
                    /\ ret.err = "errNonProxy" => toClient = WriteFastError("HTTP400", 2)
                    /\ ret.err # "errNonProxy" => toClient \in {<<>>, <<"HTTP400">>}
             /\ kind = "bad" => handlers = <<>> /\ fast = 0 /\ toClient = <<>>
    /\ handlers = <<"tunnel">> => acq["writer"] = 0 /\ acq["reader2"] = 0
    /\ handlers = <<"mitm">> => tunnelConn = "none"
    /\ handlers = <<"http">> => tunnelConn = "none" /\ acq["reader2"] = 0
    /\ handlers = <<>> => tunnelConn = "none" /\ acq["writer"] = 0 /\ acq["reader2"] = 0

\* C2 witness: a CONNECT to a host that is not decrypted went through the
\* tunnel and nothing else
C2_Witness ==
    /\ Returned /\ ReqKind(cSrc) = "connect" /\ ~decrypt
    /\ handlers = <<"tunnel">> /\ c1 = "done" /\ c2 = "done"

\* the tunnel has carried the client's stream to its clean end
TunnelUp == c1 # "idle"

\* C6: in the opaque tunnel the origin receives exactly the bytes the client
\* sent after its complete CONNECT request (request line and header block),
\* and the client receives, after the 200 OK, exactly the bytes the origin
\* sent: in order, none lost, duplicated or added.
C6_TunnelCarriesExactBytes ==
    TunnelUp =>
        /\ IsPrefix(toOrigin, Payload(cSrc))
        /\ (c1 = "done" /\ err1 = "nil") => toOrigin = Payload(cSrc)
        /\ IsPrefix(toClient, <<"HTTP200">> \o oSrc)
        /\ (c2 = "done" /\ err2 = "nil") => toClient = <<"HTTP200">> \o oSrc

\* C7: the tunnel task does not return and the connection to the origin is
\* not closed before both copiers have returned; a copier that has met a
\* clean EOF does not stop the other one, which delivers all its bytes.
C7_TunnelWaitsForBothCopiers ==
    TunnelUp =>
        /\ (Returned \/ tunnelConn = "closed") => (c1 = "done" /\ c2 = "done")
        /\ ~(c1 = "done" /\ c2 = "done") => (pc = "wait" /\ tunnelConn = "open")
        /\ (c2 = "done" /\ err2 = "nil") => toClient = <<"HTTP200">> \o oSrc
        /\ (c1 = "done" /\ err1 = "nil") =>
               /\ crd = Len(cSrc)
               /\ toOrigin = SubSeq(cSrc, Len(cSrc) - Len(toOrigin) + 1, Len(cSrc))

\* C7 witness: the client's direction has ended with EOF, the tunnel is
\* still open and the origin's direction is still copying
C7_Witness ==
    /\ c1 = "done" /\ err1 = "nil"
    /\ c2 = "run" /\ ord > 0 /\ ord < Len(oSrc)
    /\ pc = "wait" /\ tunnelConn = "open"

\* C8: once a copier has failed with a read error, the tunnel task
\* eventually finishes.
C8_ReadErrorEndsTunnel ==
    ((c1 = "done" /\ err1 = "errRead") \/ (c2 = "done" /\ err2 = "errRead"))
        ~> Returned

\* the status lines of the CONNECT answer written to the client so far
ConnectAnswers == SelectSeq(toClient, LAMBDA t : t \in {"HTTP200", "HTTP501"})

\* C11: the tunnel dials before it answers: after a failed dial only the
\* 501 is written, never a 200, and no copier is started; a 200 is written
\* only once the dial has succeeded; a connection gets at most one of the
\* two status lines.
C11_DialBeforeAnswer ==
    /\ Len(ConnectAnswers) <= 1
    /\ handlers = <<"tunnel">> =>
         /\ ret.err = "errDial" =>
              /\ toClient \in {<<>>, <<"HTTP501">>}
              /\ tunnelConn = "none"
              /\ c1 = "idle" /\ c2 = "idle" /\ toOrigin = <<>>
         /\ ConnectAnswers = <<"HTTP200">> => tunnelConn # "none" /\ ret.err # "errDial"
         /\ ConnectAnswers = <<"HTTP501">> => ret.err = "errDial"
         /\ TunnelUp => (tunnelConn # "none" /\ toClient[1] = "HTTP200")
         /\ pc = "tunnel_dial" => toClient = <<>>

\* C11 witness: the dial failed, the client got the 501 and the connection
\* was closed without a copier
C11_Witness ==
    /\ handlers = <<"tunnel">> /\ pc = "closed"
    /\ ret.err = "errDial" /\ toClient = <<"HTTP501">>
    /\ c1 = "idle" /\ c2 = "idle"

\* the errors serveConn returns for a request it could not parse
ParseErrors == {"errParse", "errNonProxy", "errResponse"}

\* C12: every parse error met on a connection is answered with a 400 to the
\* client, and the connection is closed afterwards.
C12_ParseErrorAnsweredWith400 ==
    (Returned /\ ret.err \in ParseErrors) =>
        /\ Count(events, <<"writeFastError", "400">>) = 1
        /\ pc = "closed" => conn = "closed"

\* C13: when the forward-HTTP exchange fails before any response byte was
\* forwarded, a 502 is written to the client; when it fails after some
\* response byte was forwarded, nothing more is written.
C13_TransportErrorGets502 ==
    (Returned /\ handlers = <<"http">>) =>
        /\ ret.err = "errBefore" =>
              /\ Count(events, <<"writeFastError", "502">>) = 1
              /\ toClient # <<>> => toClient[1] = "HTTP502"
        /\ ret.err = "errAfter" => toClient = <<"PARTIAL">>

\* C14: a non-CONNECT request gets the 400 'non-proxy request' answer only
\* when it has neither an absolute-URI authority nor a Host header; an
\* origin-form request with a Host header is forwarded.
C14_HostHeaderRequestForwarded ==
    Returned =>
        /\ (IsOriginForm(cSrc) /\ HasHostHeader(cSrc)) =>
              /\ handlers = <<"http">>
              /\ Count(events, <<"writeFastError", "400">>) = 0
        /\ Count(events, <<"writeFastError", "400">>) > 0 =>
              /\ IsOriginForm(cSrc)
              /\ ~HasHostHeader(cSrc)

\* the client-facing TLS failures of decryptConnect
TLSErrors == {"errSign", "errHandshake", "errNoSNI"}

\* C15: after a client-facing TLS failure in the MITM path (certificate
\* signing, TLS handshake, no SNI) the client has been written the 200 OK of
\* the CONNECT and nothing else, no Request was bound and the client engine
\* was not invoked.
C15_TLSFailureSilentAfter200 ==
    (Returned /\ handlers = <<"mitm">> /\ ret.err \in TLSErrors) =>
        /\ IsPrefix(toClient, StatusOK)
        /\ acq["req2"] = 0 /\ acq["resp"] = 0

\* C18: when the handling of a connection ends by a panic, the Request and
\* the buffered reader that serveConn acquired have been released to their
\* pools, as on a normal return.
C18_PanicStillReleases ==
    pc = "panic" =>
        /\ rel["req1"] = acq["req1"]
        /\ rel["reader1"] = acq["reader1"]

\* C23: tunnelConnect reads the copiers' results after both have finished,
\* whatever their interleaving: it returns an error exactly when a copier
\* returned one (that of the client-to-origin copier when both failed) and
\* success only when both ended without error.
C23_TunnelResultFromBothCopiers ==
    TunnelUp =>
        /\ ~Returned => ret.err = "none"
        /\ Returned =>
              /\ c1 = "done" /\ c2 = "done"
              /\ ret.err = "nil" <=> (err1 = "nil" /\ err2 = "nil")
              /\ err1 # "nil" => ret = [where |-> "tunneling request", err |-> err1]
              /\ (err1 = "nil" /\ err2 # "nil") =>
                    ret = [where |-> "tunneling response", err |-> err2]
        /\ c1 # "done" => err1 = "nil"
        /\ c2 # "done" => err2 = "nil"

\* C23 witness: both copiers failed, with different errors, the second one
\* first; the tunnel reported the error of the client-to-origin copier
C23_Witness ==
    /\ TunnelUp /\ Returned
    /\ err1 = "errRead" /\ err2 = "errWrite"
    /\ ret.err = "errRead"
    /\ toOrigin = <<>>

\* position of the first op in ops, 0 when it is not there
IndexOf(ops, op) ==
    IF \E i \in DOMAIN ops : ops[i] = op
    THEN CHOOSE i \in DOMAIN ops : ops[i] = op /\ \A j \in 1..(i - 1) : ops[j] # op
    ELSE 0

\* op a is in ops and comes before op b
Before(a, b) ==
    /\ IndexOf(events, a) > 0
    /\ IndexOf(events, a) < IndexOf(events, b)

\* C24: on every exit of the forward-HTTP and the MITM handler after the
\* writer was acquired, the Response is released, then the writer is
\* flushed, then the writer is released; in the MITM handler the flush comes
\* before the TLS connection is closed; the Request and its reader are
\* released only after client.Do has come back.
C24_FlushBeforeReleaseAndClose ==
    /\ ((Returned \/ pc = "panic") /\ acq["writer"] = 1) =>
          /\ Before(<<"release", "resp">>, <<"flush", "writer">>)
          /\ Before(<<"flush", "writer">>, <<"release", "writer">>)
          /\ Count(events, <<"flush", "writer">>) = 1
          /\ handlers = <<"mitm">> => Before(<<"flush", "writer">>, <<"close", "tls">>)
    /\ (handlers = <<"http">> /\ rel["req1"] = 1) =>
          /\ Before(<<"exit", "client.Do">>, <<"release", "req1">>)
          /\ Before(<<"exit", "client.Do">>, <<"release", "reader1">>)
    /\ (handlers = <<"mitm">> /\ rel["req2"] = 1 /\ acq["writer"] = 1) =>
          /\ Before(<<"exit", "client.Do">>, <<"release", "req2">>)
          /\ Before(<<"exit", "client.Do">>, <<"release", "reader2">>)

\* C24 witness: the MITM handler left with an error after part of the
\* response was forwarded; the writer was flushed and released
C24_Witness ==
    /\ Returned /\ handlers = <<"mitm">>
    /\ ret.err = "errAfter"
    /\ rel["writer"] = 1 /\ rel["resp"] = 1 /\ conn = "closed"

---------------------------------------------------------------------------
(* Properties of the server (SpecServe) *)

\* C9: never more than MaxWorkersCount connections are served at a time; a
\* connection is refused exactly when that many are in service, and then it
\* is written a 503 with Connection: close, closed and never served, before
\* the next connection is accepted.
C9_BoundedWorkersAndRejection ==
    /\ Cardinality(Serving) <= DefaultConcurrency
    /\ \A c \in Conns :
         /\ cinfo[c].served => (~cinfo[c].rejected /\ cinfo[c].load < DefaultConcurrency)
         /\ cinfo[c].rejected =>
              /\ ~cinfo[c].served /\ cinfo[c].outcome = "none"
              /\ cinfo[c].load = DefaultConcurrency
              /\ cst[c] \in {"rejecting", "closed"}
              /\ Len(cinfo[c].wrote) >= 1 => cinfo[c].wrote[1] = "HTTP503"
              /\ Len(cinfo[c].wrote) >= 2 => cinfo[c].wrote[2] = "Connection: close"
         /\ cst[c] = "rejecting" =>
              /\ cur = c /\ accepted = c
              /\ spc \in {"reject", "reject_close"}
         /\ (cst[c] = "accepted") => (cur = c /\ spc = "dispatch")
    /\ spc \in {"accept", "returned", "init"} => cur = 0

\* C9 witness: with MaxWorkersCount connections in service one more was
\* refused, got the whole 503 and was closed, and the next was accepted
C9_Witness ==
    \E c \in Conns :
        /\ cinfo[c].rejected /\ cst[c] = "closed"
        /\ Len(cinfo[c].wrote) = 4
        /\ accepted > c
        /\ Cardinality(Serving) = DefaultConcurrency

PermanentErrors == {"eof", "closed", "permanent"}

\* C10: Serve returns only for a non-temporary accept error (nil for EOF and
\* for a closed listener, the error otherwise) and has stopped the worker
\* pool by then; a temporary error is retried; whatever happens to a served
\* or refused connection, the loop goes on.
C10_LoopEndsOnPermanentErrorOnly ==
    /\ spc = "returned" =>
         \/ serveRet = "errInit" /\ wp = "none" /\ lastAccept = "none"
         \/ lastAccept \in {"eof", "closed"} /\ serveRet = "nil" /\ wp = "stopped"
         \/ lastAccept = "permanent" /\ serveRet = "permanent" /\ wp = "stopped"
    /\ spc \notin {"returned", "init", "idle"} =>
         /\ wp = "running" /\ serveRet = "none"
         /\ lastAccept \notin PermanentErrors
    /\ lastAccept = "temporary" => spc = "accept"
    /\ wp = "stopped" => spc = "returned"

\* C10 witness: the loop went through a temporary error, a connection that
\* ended with a transport error and a refused connection whose 503 could
\* not be written, and returned nil when the listener was closed
C10_Witness ==
    /\ spc = "returned" /\ serveRet = "nil" /\ lastAccept = "closed"
    /\ tempErrs > 0
    /\ \E c \in Conns : cinfo[c].outcome = "errTransport"
    /\ \E c \in Conns : cinfo[c].rejected /\ cinfo[c].wrote = <<>> /\ cst[c] = "closed"

---------------------------------------------------------------------------
(* Properties of the pooled objects (SpecObj) *)

\* C19: a Request is bound at most once between resets: init on a bound
\* Request returns an error and changes no field; an init that fails leaves
\* the Request unbound; an init with valid arguments on an unbound Request
\* (a new one, or one that was reset) binds it. In every state isTLS implies a
\* non-empty tlsServerName.
C19_BoundOnceAndTLSName ==
    /\ \A i \in ReqInsts : requests[i].isTLS => requests[i].tlsServerName # ""
    /\ (lastOp.op = "init" /\ lastOp.obj = "req") =>
         /\ lastOp.bound => (lastOp.err # "nil" /\ lastOp.same)
         /\ (lastOp.err # "nil" /\ ~lastOp.bound) => requests[lastOp.inst].reader = "nil"
         /\ lastOp.err = "nil" <=> (~lastOp.bound /\ lastOp.valid)
         /\ lastOp.err = "nil" => requests[lastOp.inst].reader # "nil"
    /\ (lastOp.op \in {"reset", "release"} /\ lastOp.obj = "req") =>
         requests[lastOp.inst].reader = "nil"

\* C19 witness: init was called on a Request bound for TLS; it returned an
\* error and left the Request as it was
C19_Witness ==
    /\ lastOp.op = "init" /\ lastOp.obj = "req"
    /\ lastOp.bound /\ lastOp.valid
    /\ lastOp.err = "already initialized"
    /\ requests[lastOp.inst].isTLS
    /\ \E j \in ReqInsts : reqState[j] = "pooled"

\* C20: the instance AcquireRequest or AcquireResponse returns is a reset
\* one: unbound, start line and header reset, no sniffer, isTLS false and
\* tlsServerName empty.
C20_AcquiredInstanceIsReset ==
    lastOp.op = "acquire" =>
        /\ lastOp.obj = "req" => requests[lastOp.inst] = ZeroRequest
        /\ lastOp.obj = "resp" => responses[lastOp.inst] = ZeroResponse

=============================================================================
